---- MODULE Spec2Model ----
(***************************************************************************)
(* Model of the nonce replay guard, the in-memory TTL store behind it and  *)
(* the middleware chain runner of the IDX middleware HTTP server.          *)
(*                                                                         *)
(* Strings the code inspects character by character (the URL path, the     *)
(* nonce header) are sequences of one-character strings.  A JavaScript     *)
(* Map is a sequence of [k, v] records in insertion order.  A value that   *)
(* may be undefined is a sequence of length 0 or 1.                        *)
(***************************************************************************)
EXTENDS Integers, Sequences, FiniteSets, Bags, TLC

VARIABLES
    data,       \* nonceStorage.data : the Map of the TTL store, in insertion order
    maxSize,    \* nonceStorage.options.maxSize (0 = unlimited), fixed at construction
    now,        \* Date.now(), in milliseconds
    inflight,   \* the bag of requests suspended in the terminal handler
    last,       \* the operation that has just run and its result, until it is
                \* handed to the caller; "idle" between operations
    hist,       \* per nonce: when the guard last accepted it, and whether an
                \* expired entry of it was since looked up by get/getValue/cleanup
    tampered,   \* delete() or clear() has been called on the nonce store
    chain,      \* a chain under test: the kinds of its middlewares, in order
    run,        \* the state of one run of the chain under test
    events,     \* the events delivered so far to a listener subscribed with on()
    options,    \* the options a store under test was constructed with
    listeners,  \* the listeners of a store under test, in the order of their on()
    timers,     \* the interval timers a store under test has scheduled
    sem         \* a Semaphore under test and the callers of its execute()

vars == <<data, maxSize, now, inflight, last, hist, tampered, chain, run, events,
         options, listeners, timers, sem>>

serverVars == <<data, maxSize, now, inflight, last, hist, tampered>>
chainVars == <<chain, run>>
restVars == <<options, listeners, timers, sem>>

-----------------------------------------------------------------------------
(* Bounds of the model *)

MaxInFlight == 2     \* requests suspended in the router at one time
MaxChain == 3        \* middlewares in a chain under test
MaxTime == 2         \* the last instant of the clock of a store under test
MaxEvents == 4       \* events after which a store under test takes no further set
MaxObserved == 2     \* events after which a store with listeners takes no further operation
MaxCalls == 4        \* calls of execute() on a semaphore under test

-----------------------------------------------------------------------------
(* The parts of the state a specification does not use stay as constructed. *)

(* The options of a store constructed with no options. *)
DefaultOptions ==
    [ttl |-> TRUE, autoCleanup |-> FALSE, defaultTTL |-> 0, cleanupInterval |-> 60000,
     onEvict |-> "ok", onExpire |-> "ok"]

(* No interval scheduled, cleanupTimer = null. *)
NoTimers == [noop |-> 0, sweep |-> 0, cleanupTimer |-> FALSE]

NoSem == [size |-> 0, permits |-> 0, queue |-> <<>>, callers |-> <<>>, direct |-> FALSE]

RestInit ==
    /\ options = DefaultOptions
    /\ listeners = <<>>
    /\ timers = NoTimers
    /\ sem = NoSem

-----------------------------------------------------------------------------
(* Program constants *)

NONCE_TTL == 5 * 60 * 1000

OK == 200
BAD_REQUEST == 400
NOT_FOUND == 404
UNPROCESSABLE_ENTITY == 422
INTERNAL_SERVER_ERROR == 500

CORS_HEADERS ==
    { "Access-Control-Allow-Origin",
      "Access-Control-Allow-Methods",
      "Access-Control-Allow-Headers" }

HealthPath == <<"/", "h", "e", "a", "l", "t", "h">>
ApiPrefix == <<"/", "a", "p", "i">>

-----------------------------------------------------------------------------
(* Strings *)

StartsWith(s, p) ==
    /\ Len(s) >= Len(p)
    /\ SubSeq(s, 1, Len(p)) = p

(* The characters String.prototype.trim strips: WhiteSpace (tab, vertical *)
(* tab, form feed, space, no-break space, the byte order mark and the     *)
(* space separators of Unicode) and LineTerminator (line feed, carriage   *)
(* return, line and paragraph separator).  A character that has no escape *)
(* here is written as its code point.                                     *)
WhiteSpace ==
    { "\t", "U+000B", "\f", " ", "U+00A0", "U+FEFF",
      "U+1680", "U+2000", "U+2001", "U+2002", "U+2003", "U+2004", "U+2005", "U+2006",
      "U+2007", "U+2008", "U+2009", "U+200A", "U+202F", "U+205F", "U+3000" }

LineTerminator == {"\n", "\r", "U+2028", "U+2029"}

IsWhite(c) == c \in WhiteSpace \cup LineTerminator

RECURSIVE TrimStart(_)
TrimStart(s) ==
    IF s # <<>> /\ IsWhite(Head(s)) THEN TrimStart(Tail(s)) ELSE s

RECURSIVE TrimEnd(_)
TrimEnd(s) ==
    IF s # <<>> /\ IsWhite(s[Len(s)]) THEN TrimEnd(SubSeq(s, 1, Len(s) - 1)) ELSE s

Trim(s) == TrimEnd(TrimStart(s))

-----------------------------------------------------------------------------
(* Map<K, V> *)

MapHas(d, k) == \E i \in 1..Len(d) : d[i].k = k

MapGet(d, k) ==
    IF MapHas(d, k)
    THEN <<d[CHOOSE i \in 1..Len(d) : d[i].k = k].v>>
    ELSE <<>>

(* A set that moves an overwritten key behind all others. *)
MapSetMovesToEnd(d, k, v) ==
    Append(SelectSeq(d, LAMBDA e : e.k # k), [k |-> k, v |-> v])

MapSet(d, k, v) ==
    IF MapHas(d, k)
    THEN [i \in 1..Len(d) |-> IF d[i].k = k THEN [k |-> k, v |-> v] ELSE d[i]]
    ELSE Append(d, [k |-> k, v |-> v])

MapDelete(d, k) == SelectSeq(d, LAMBDA e : e.k # k)

Event(type, k) == [type |-> type, key |-> k]

-----------------------------------------------------------------------------
(* InMemoryStorage *)

(* A has() that finds nothing. *)
StorageHasNothing(d, k) == FALSE

StorageHas(d, k) == MapHas(d, k)

StorageSet(d, size, k, v) ==
    LET evicting == size > 0 /\ Len(d) >= size /\ ~MapHas(d, k)
        d1 == IF evicting THEN MapDelete(d, d[1].k) ELSE d
        ev == IF evicting THEN <<Event("evict", d[1].k)>> ELSE <<>>
    IN  [data |-> MapSet(d1, k, v), events |-> Append(ev, Event("set", k))]

StorageDelete(d, k) ==
    [data |-> MapDelete(d, k),
     ret |-> MapHas(d, k),
     events |-> IF MapHas(d, k) THEN <<Event("delete", k)>> ELSE <<>>]

RECURSIVE deleteMany(_, _)
deleteMany(d, keys) ==
    IF keys = <<>> THEN [data |-> d, ret |-> 0, events |-> <<>>]
    ELSE LET first == StorageDelete(d, Head(keys))
             rest == deleteMany(first.data, Tail(keys))
         IN  [data |-> rest.data,
              ret |-> (IF first.ret THEN 1 ELSE 0) + rest.ret,
              events |-> first.events \o rest.events]

StorageClear(d) == [data |-> <<>>, events |-> <<Event("clear", <<>>)>>]

-----------------------------------------------------------------------------
(* InMemoryStorageWithTTL *)

(* An expiry test that lets an item live through the instant it expires at. *)
isExpiredStrict(item, t) == item.expiresAt < t

isExpired(item, t) == item.expiresAt <= t

(* A setWithTTL() that ignores its ttl: the item expires as it is stored. *)
SetWithTTLForgetsTtl(d, size, k, value, ttlMs, t) ==
    StorageSet(d, size, k, [value |-> value, expiresAt |-> t])

SetWithTTL(d, size, k, value, ttlMs, t) ==
    StorageSet(d, size, k, [value |-> value, expiresAt |-> t + ttlMs])

TTLGet(d, k, t) ==
    LET item == MapGet(d, k)
    IN  IF item = <<>>
        THEN [data |-> d, ret |-> <<>>, events |-> <<>>]
        ELSE IF isExpired(item[1], t)
        THEN [data |-> StorageDelete(d, k).data,
              ret |-> <<>>,
              events |-> StorageDelete(d, k).events \o <<Event("expire", k)>>]
        ELSE [data |-> d, ret |-> item, events |-> <<>>]

(* A getValue() that emits expire itself for an entry its get() has just   *)
(* expired.                                                                *)
GetValueFiresAgain(d, k, t) ==
    LET got == TTLGet(d, k, t)
    IN  IF got.ret = <<>>
        THEN [got EXCEPT !.events = IF MapHas(d, k) THEN @ \o <<Event("expire", k)>> ELSE @]
        ELSE [data |-> got.data, ret |-> <<got.ret[1].value>>, events |-> got.events]

GetValue(d, k, t) ==
    LET got == TTLGet(d, k, t)
    IN  IF got.ret = <<>>
        THEN got
        ELSE IF isExpired(got.ret[1], t)
        THEN [data |-> StorageDelete(got.data, k).data,
              ret |-> <<>>,
              events |-> StorageDelete(got.data, k).events \o <<Event("expire", k)>>]
        ELSE [data |-> got.data, ret |-> <<got.ret[1].value>>, events |-> got.events]

(* A cleanup() that stops after the first item it removes. *)
CleanupStopsAtFirst(d, t) ==
    LET gone == SelectSeq(d, LAMBDA e : e.v.expiresAt <= t)
    IN  IF gone = <<>>
        THEN [data |-> d, ret |-> 0, events |-> <<>>]
        ELSE [data |-> SelectSeq(d, LAMBDA e : e.k # gone[1].k),
              ret |-> 1,
              events |-> <<Event("expire", gone[1].k)>>]

(* A cleanup() that keeps the items expiring at this very instant. *)
CleanupStrict(d, t) ==
    LET gone == SelectSeq(d, LAMBDA e : e.v.expiresAt < t)
    IN  [data |-> SelectSeq(d, LAMBDA e : ~(e.v.expiresAt < t)),
         ret |-> Len(gone),
         events |-> [i \in 1..Len(gone) |-> Event("expire", gone[i].k)]]

Cleanup(d, t) ==
    LET gone == SelectSeq(d, LAMBDA e : e.v.expiresAt <= t)
    IN  [data |-> SelectSeq(d, LAMBDA e : ~(e.v.expiresAt <= t)),
         ret |-> Len(gone),
         events |-> [i \in 1..Len(gone) |-> Event("expire", gone[i].k)]]

(* getAll() of the TTL store: the items that have not expired, in map order. *)
GetAll(d, t) ==
    LET items == [i \in 1..Len(d) |-> d[i].v]
    IN  SelectSeq(items, LAMBDA item : item.expiresAt > t)

(* values(), which the TTL store inherits: every item, in map order. *)
Values(d) == [i \in 1..Len(d) |-> d[i].v]

-----------------------------------------------------------------------------
(* Requests, responses, errors *)

NoResponse == [status |-> 0, body |-> "", error |-> "", message |-> [text |-> "", nonce |-> <<>>],
               headers |-> {}, tags |-> <<>>]

Response(status, body) == [NoResponse EXCEPT !.status = status, !.body = body]

NoError == [name |-> "", message |-> [text |-> "", nonce |-> <<>>], statusCode |-> 0, isApp |-> FALSE]

AppError(name, message, statusCode) ==
    [name |-> name, message |-> message, statusCode |-> statusCode, isApp |-> TRUE]

PlainError(text) ==
    [name |-> "Error", message |-> [text |-> text, nonce |-> <<>>],
     statusCode |-> 0, isApp |-> FALSE]

MissingNonceError ==
    AppError("MissingNonceError", [text |-> "X-Nonce header is required", nonce |-> <<>>],
             BAD_REQUEST)

DuplicateNonceError(nonce) ==
    AppError("DuplicateNonceError", [text |-> "Nonce already used: ", nonce |-> nonce],
             UNPROCESSABLE_ENTITY)

ValidationError(text) ==
    AppError("ValidationError", [text |-> text, nonce |-> <<>>], BAD_REQUEST)

(* A conversion that answers every error with 500. *)
errorToResponseAlways500(error) ==
    [NoResponse EXCEPT !.status = INTERNAL_SERVER_ERROR, !.body = "json",
                       !.error = IF error.isApp THEN error.name ELSE "InternalServerError",
                       !.message = error.message]

errorToResponse(error) ==
    IF error.isApp
    THEN [NoResponse EXCEPT !.status = error.statusCode, !.body = "json",
                            !.error = error.name, !.message = error.message]
    ELSE [NoResponse EXCEPT !.status = INTERNAL_SERVER_ERROR, !.body = "json",
                            !.error = "InternalServerError", !.message = error.message]

-----------------------------------------------------------------------------
(* Middlewares *)

Ev(i, ev, resp) == [mw |-> i, ev |-> ev, resp |-> resp]

Step(act, d, resp, err) == [act |-> act, data |-> d, resp |-> resp, err |-> err]

NonceStorageConfigured == TRUE

RequestIP(req) == IF req.ip = <<>> THEN "unknown" ELSE req.ip[1]

NonceMetadata(req, t) ==
    [timestamp |-> t, path |-> req.path, method |-> req.method, ip |-> RequestIP(req)]

(* A header test that does not trim. *)
NonceIsMissingNoTrim(req) == req.nonce = <<>> \/ req.nonce[1] = <<>>

NonceIsMissing(req) == req.nonce = <<>> \/ req.nonce[1] = <<>> \/ Trim(req.nonce[1]) = <<>>

(* A guard that stores the nonce of a replay again before rejecting it. *)
createNonceMiddlewareRefreshes(ttl, req, d, size, t) ==
    IF ~NonceStorageConfigured THEN Step("next", d, NoResponse, NoError)
    ELSE IF ~StartsWith(req.path, ApiPrefix) THEN Step("next", d, NoResponse, NoError)
    ELSE IF req.nonce = <<>> \/ req.nonce[1] = <<>> \/ Trim(req.nonce[1]) = <<>>
    THEN Step("throw", d, NoResponse, MissingNonceError)
    ELSE LET stored == StorageSet(d, size, req.nonce[1],
                                  [value |-> [value |-> NonceMetadata(req, t),
                                              expiresAt |-> t + ttl],
                                   expiresAt |-> t + ttl]).data
         IN  IF MapHas(d, req.nonce[1])
             THEN Step("throw", stored, NoResponse, DuplicateNonceError(req.nonce[1]))
             ELSE Step("next", stored, NoResponse, NoError)

(* A guard that answers an accepted request itself instead of calling      *)
(* next().                                                                 *)
createNonceMiddlewareAnswers(ttl, req, d, size, t) ==
    IF ~NonceStorageConfigured THEN Step("next", d, NoResponse, NoError)
    ELSE IF ~StartsWith(req.path, ApiPrefix) THEN Step("next", d, NoResponse, NoError)
    ELSE IF req.nonce = <<>> \/ req.nonce[1] = <<>> \/ Trim(req.nonce[1]) = <<>>
    THEN Step("throw", d, NoResponse, MissingNonceError)
    ELSE IF MapHas(d, req.nonce[1])
    THEN Step("throw", d, NoResponse, DuplicateNonceError(req.nonce[1]))
    ELSE Step("return",
              StorageSet(d, size, req.nonce[1],
                         [value |-> [value |-> NonceMetadata(req, t),
                                     expiresAt |-> t + ttl],
                          expiresAt |-> t + ttl]).data,
              Response(NOT_FOUND, "Not Found"), NoError)

createNonceMiddleware(ttl, req, d, size, t) ==
    IF ~NonceStorageConfigured THEN Step("next", d, NoResponse, NoError)
    ELSE IF ~StartsWith(req.path, ApiPrefix) THEN Step("next", d, NoResponse, NoError)
    ELSE IF NonceIsMissing(req) THEN Step("throw", d, NoResponse, MissingNonceError)
    ELSE IF StorageHas(d, req.nonce[1])
    THEN Step("throw", d, NoResponse, DuplicateNonceError(req.nonce[1]))
    ELSE Step("next",
              SetWithTTL(d, size, req.nonce[1],
                         [value |-> NonceMetadata(req, t), expiresAt |-> t + ttl],
                         ttl, t).data,
              NoResponse, NoError)

createCorsMiddleware(req, d) ==
    IF req.method = "OPTIONS"
    THEN Step("return", d, [Response(OK, "") EXCEPT !.headers = CORS_HEADERS], NoError)
    ELSE Step("next", d, NoResponse, NoError)

CorsAfterNext(resp) == [resp EXCEPT !.headers = @ \cup CORS_HEADERS]

(* What the middleware at position i does when it is called: it calls      *)
(* next(), returns a response of its own, or throws.                       *)
Middleware(kind, i, req, d, size, t) ==
    CASE kind = "cors" -> createCorsMiddleware(req, d)
      [] kind = "nonce" -> createNonceMiddleware(NONCE_TTL, req, d, size, t)
      [] kind = "pass" -> Step("next", d, NoResponse, NoError)
      [] kind = "wrap" -> Step("next", d, NoResponse, NoError)
      [] kind = "short" -> Step("return", d, [Response(OK, "short") EXCEPT !.tags = <<i>>], NoError)
      [] kind = "throw" -> Step("throw", d, NoResponse, PlainError("middleware failed"))

(* A transforming middleware that also turns an exception of its next()    *)
(* into a response.                                                        *)
MiddlewareAfterNextCatches(kind, i, out) ==
    IF out.kind = "err" /\ kind # "wrap"
    THEN [out EXCEPT !.log = Append(@, Ev(i, "throw", NoResponse))]
    ELSE LET r == CASE out.kind = "err" -> Response(INTERNAL_SERVER_ERROR, "caught")
                    [] kind = "cors" -> [out.resp EXCEPT !.headers = @ \cup CORS_HEADERS]
                    [] kind = "wrap" -> [out.resp EXCEPT !.tags = Append(@, i)]
                    [] OTHER -> out.resp
         IN  [kind |-> "resp", resp |-> r, err |-> [name |-> "", message |->
                [text |-> "", nonce |-> <<>>], statusCode |-> 0, isApp |-> FALSE],
              log |-> Append(out.log, Ev(i, "return", r))]

(* What the middleware at position i does with the outcome of its next():  *)
(* an exception passes through it, a response is returned as it is or      *)
(* replaced.                                                               *)
MiddlewareAfterNext(kind, i, out) ==
    IF out.kind = "err"
    THEN [out EXCEPT !.log = Append(@, Ev(i, "throw", NoResponse))]
    ELSE LET r == CASE kind = "cors" -> CorsAfterNext(out.resp)
                    [] kind = "wrap" -> [out.resp EXCEPT !.tags = Append(@, i)]
                    [] OTHER -> out.resp
         IN  [out EXCEPT !.resp = r, !.log = Append(@, Ev(i, "return", r))]

-----------------------------------------------------------------------------
(* createMiddlewareChain *)

(* dispatch(i) down to the first middleware that does not call next(), or  *)
(* to the final handler, which suspends.                                   *)
(* A dispatch that takes the last middleware for the final handler. *)
RECURSIVE dispatchOffByOne(_, _, _, _, _, _)
dispatchOffByOne(i, middlewares, req, d, size, t) ==
    IF i >= Len(middlewares)
    THEN [log |-> <<Ev(Len(middlewares) + 1, "enter", NoResponse)>>, data |-> d,
          stop |-> "handler", at |-> Len(middlewares) + 1,
          resp |-> NoResponse, err |-> NoError]
    ELSE LET a == Middleware(middlewares[i], i, req, d, size, t)
         IN  IF a.act = "next"
             THEN LET rest == dispatchOffByOne(i + 1, middlewares, req, a.data, size, t)
                  IN  [rest EXCEPT !.log = <<Ev(i, "enter", NoResponse),
                                             Ev(i, "next", NoResponse)>> \o @]
             ELSE [log |-> <<Ev(i, "enter", NoResponse), Ev(i, a.act, a.resp)>>,
                   data |-> a.data, stop |-> a.act, at |-> i,
                   resp |-> a.resp, err |-> a.err]

RECURSIVE dispatch(_, _, _, _, _, _)
dispatch(i, middlewares, req, d, size, t) ==
    IF i > Len(middlewares)
    THEN [log |-> <<Ev(i, "enter", NoResponse)>>, data |-> d, stop |-> "handler", at |-> i,
          resp |-> NoResponse, err |-> NoError]
    ELSE LET a == Middleware(middlewares[i], i, req, d, size, t)
         IN  IF a.act = "next"
             THEN LET rest == dispatch(i + 1, middlewares, req, a.data, size, t)
                  IN  [rest EXCEPT !.log = <<Ev(i, "enter", NoResponse),
                                             Ev(i, "next", NoResponse)>> \o @]
             ELSE [log |-> <<Ev(i, "enter", NoResponse), Ev(i, a.act, a.resp)>>,
                   data |-> a.data, stop |-> a.act, at |-> i,
                   resp |-> a.resp, err |-> a.err]

Outcome(kind, resp, err, log) == [kind |-> kind, resp |-> resp, err |-> err, log |-> log]

(* The way back: the outcome of dispatch(i + 1) is handed to middleware i, *)
(* then i - 1, ... then the first.                                         *)
RECURSIVE unwind(_, _, _)
unwind(i, middlewares, out) ==
    IF i = 0 THEN out
    ELSE unwind(i - 1, middlewares, MiddlewareAfterNext(middlewares[i], i, out))

(* The outcome of a chain whose dispatch stopped at a middleware. *)
Stopped(middlewares, down) ==
    unwind(down.at - 1, middlewares,
           Outcome(IF down.stop = "throw" THEN "err" ELSE "resp", down.resp, down.err, down.log))

(* The outcome of a chain whose final handler returned or threw. *)
Resumed(middlewares, log, kind, resp, err) ==
    unwind(Len(middlewares), middlewares,
           Outcome(kind, resp, err,
                   Append(log, Ev(Len(middlewares) + 1,
                                  IF kind = "err" THEN "throw" ELSE "return", resp))))

-----------------------------------------------------------------------------
(* The server *)

(* A chain with the nonce guard in front of CORS. *)
ServerChainGuardFirst == <<"nonce", "cors">>

ServerChain == <<"cors", "nonce">>
NonceIndex == CHOOSE i \in 1..Len(ServerChain) : ServerChain[i] = "nonce"
RouterIndex == Len(ServerChain) + 1

ApiPath == ApiPrefix \o <<"/", "v", "1">>
OtherPath == <<"/", "x">>

Paths == {HealthPath, ApiPath, OtherPath}
Methods == {"GET", "OPTIONS"}
NonceKeys == {<<"a">>, <<"b">>}
NonceHeaders == {<<>>, <<<<>>>>, <<<<"\f">>>>} \cup {<<k>> : k \in NonceKeys}
PeerAddresses == {<<"10.0.0.1">>}

Requests == [path : Paths, method : Methods, nonce : NonceHeaders, ip : PeerAddresses]

Instants == {0, NONCE_TTL - 1, NONCE_TTL}
MaxSizes == {0, 1}

HealthResponse == Response(OK, "health")
NotFoundResponse == Response(NOT_FOUND, "Not Found")
RouterResponse == Response(OK, "router")

RouterOutcomes == {"ok", "errorResponse", "appError", "error"}

(* createRequestMiddleware around the router: a response gets the request  *)
(* id header, an exception is logged and thrown again.                     *)
requestMiddleware(outcome) ==
    CASE outcome = "ok" ->
             [kind |-> "resp",
              resp |-> [RouterResponse EXCEPT !.headers = @ \cup {"x-request-id"}],
              err |-> NoError]
      [] outcome = "errorResponse" ->
             [kind |-> "resp",
              resp |-> [errorToResponse(PlainError("upstream failed"))
                            EXCEPT !.headers = @ \cup {"x-request-id"}],
              err |-> NoError]
      [] outcome = "appError" ->
             [kind |-> "err", resp |-> NoResponse, err |-> ValidationError("invalid parameter")]
      [] outcome = "error" ->
             [kind |-> "err", resp |-> NoResponse, err |-> PlainError("upstream failed")]

(* The try/catch of fetch around the chain. *)
AtBoundary(out) == IF out.kind = "err" THEN errorToResponse(out.err) ELSE out.resp

ThrownName(out) == IF out.kind = "err" THEN out.err.name ELSE "none"

(* A routing that sends the health path through the chain. *)
RouteHealthThroughChain(req) ==
    IF StartsWith(req.path, ApiPrefix) \/ req.path = HealthPath THEN "chain"
    ELSE "notFound"

(* Which branch of fetch a request takes. *)
Route(req) ==
    IF req.path = HealthPath THEN "health"
    ELSE IF StartsWith(req.path, ApiPrefix) THEN "chain"
    ELSE "notFound"

Finished(op, req, out) ==
    [op |-> op, req |-> req, outcome |-> "response", error |-> ThrownName(out),
     resp |-> AtBoundary(out), log |-> out.log]

Accepts(req, down) ==
    /\ down.stop = "handler"
    /\ ~NonceIsMissing(req)

NoHist == [at |-> -1, swept |-> FALSE]

Idle == [op |-> "idle"]

NoRun == [phase |-> "idle", log |-> <<>>, out |-> Outcome("resp", NoResponse, NoError, <<>>)]

Init ==
    /\ data = <<>>
    /\ maxSize \in MaxSizes
    /\ now = 0
    /\ inflight = EmptyBag
    /\ last = Idle
    /\ hist = [k \in NonceKeys |-> NoHist]
    /\ tampered = FALSE
    /\ chain = <<>>
    /\ run = NoRun
    /\ events = <<>>
    /\ RestInit

(* fetch(req, server) up to its first suspension. *)
Fetch(req) ==
    /\ last = Idle
    /\ CASE Route(req) = "health" ->
              /\ last' = Finished("fetch", req, Outcome("resp", HealthResponse, NoError, <<>>))
              /\ UNCHANGED <<data, inflight, hist>>
         [] Route(req) = "notFound" ->
              /\ last' = Finished("fetch", req, Outcome("resp", NotFoundResponse, NoError, <<>>))
              /\ UNCHANGED <<data, inflight, hist>>
         [] Route(req) = "chain" ->
              LET down == dispatch(1, ServerChain, req, data, maxSize, now)
              IN  /\ data' = down.data
                  /\ IF down.stop = "handler"
                     THEN /\ BagCardinality(inflight) < MaxInFlight
                          /\ inflight' = inflight (+) SetToBag({[req |-> req, log |-> down.log,
                                                                  at |-> now]})
                          /\ last' = [op |-> "fetch", req |-> req, outcome |-> "pending",
                                      error |-> "none", resp |-> NoResponse, log |-> down.log]
                     ELSE /\ inflight' = inflight
                          /\ last' = Finished("fetch", req, Stopped(ServerChain, down))
                  /\ hist' = IF Accepts(req, down)
                             THEN [hist EXCEPT ![req.nonce[1]] = [at |-> now, swept |-> FALSE]]
                             ELSE hist
    /\ UNCHANGED <<maxSize, now, tampered, chainVars, events, restVars>>

(* A completion that gives the nonce back when the router failed: the      *)
(* entry of the request's nonce is deleted unless the router answered OK.  *)
RouterReturnReleases(f, outcome) ==
    /\ last = Idle
    /\ BagIn(f, inflight)
    /\ LET h == requestMiddleware(outcome)
       IN  last' = Finished("return", f.req,
                            Resumed(ServerChain, f.log, h.kind, h.resp, h.err))
    /\ inflight' = inflight (-) SetToBag({f})
    /\ data' = IF outcome = "ok" THEN data ELSE MapDelete(data, f.req.nonce[1])
    /\ UNCHANGED <<maxSize, now, hist, tampered, chainVars, events, restVars>>

(* The router of a suspended request returns or throws, and the response   *)
(* goes back through the chain to fetch.                                   *)
RouterReturn(f, outcome) ==
    /\ last = Idle
    /\ BagIn(f, inflight)
    /\ LET h == requestMiddleware(outcome)
       IN  last' = Finished("return", f.req,
                            Resumed(ServerChain, f.log, h.kind, h.resp, h.err))
    /\ inflight' = inflight (-) SetToBag({f})
    /\ UNCHANGED <<data, maxSize, now, hist, tampered, chainVars, events, restVars>>

(* Time passes between operations. *)
Tick(t) ==
    /\ last = Idle
    /\ t \in Instants
    /\ t > now
    /\ now' = t
    /\ UNCHANGED <<data, maxSize, inflight, last, hist, tampered, chainVars, events, restVars>>

(* The operation that has just run hands its result to its caller; the     *)
(* runtime runs one callback at a time, to completion.                     *)
Return ==
    /\ last # Idle
    /\ last' = Idle
    /\ UNCHANGED <<data, maxSize, now, inflight, hist, tampered, chainVars, events, restVars>>

(* An entry of k accepted a full TTL ago is looked at by this operation. *)
Sweeps(k) == hist[k].at >= 0 /\ hist[k].at + NONCE_TTL <= now

Get(k) ==
    /\ last = Idle
    /\ data' = TTLGet(data, k, now).data
    /\ last' = [op |-> "get", key |-> k, ret |-> TTLGet(data, k, now).ret]
    /\ hist' = [hist EXCEPT ![k].swept = @ \/ Sweeps(k)]
    /\ UNCHANGED <<maxSize, now, inflight, tampered, chainVars, events, restVars>>

GetValueOp(k) ==
    /\ last = Idle
    /\ data' = GetValue(data, k, now).data
    /\ last' = [op |-> "getValue", key |-> k, ret |-> GetValue(data, k, now).ret]
    /\ hist' = [hist EXCEPT ![k].swept = @ \/ Sweeps(k)]
    /\ UNCHANGED <<maxSize, now, inflight, tampered, chainVars, events, restVars>>

(* cleanup(), called by the interval timer or directly. *)
CleanupOp ==
    /\ last = Idle
    /\ data' = Cleanup(data, now).data
    /\ last' = [op |-> "cleanup", ret |-> Cleanup(data, now).ret]
    /\ hist' = [k \in NonceKeys |-> [hist[k] EXCEPT !.swept = @ \/ Sweeps(k)]]
    /\ UNCHANGED <<maxSize, now, inflight, tampered, chainVars, events, restVars>>

DeleteOp(k) ==
    /\ last = Idle
    /\ data' = StorageDelete(data, k).data
    /\ last' = [op |-> "delete", key |-> k, ret |-> StorageDelete(data, k).ret]
    /\ tampered' = TRUE
    /\ UNCHANGED <<maxSize, now, inflight, hist, chainVars, events, restVars>>

ClearOp ==
    /\ last = Idle
    /\ data' = StorageClear(data).data
    /\ last' = [op |-> "clear"]
    /\ tampered' = TRUE
    /\ UNCHANGED <<maxSize, now, inflight, hist, chainVars, events, restVars>>

Next ==
    \/ \E req \in Requests : Fetch(req)
    \/ \E f \in BagToSet(inflight), outcome \in RouterOutcomes : RouterReturn(f, outcome)
    \/ \E t \in Instants : Tick(t)
    \/ \E k \in NonceKeys : Get(k)
    \/ \E k \in NonceKeys : GetValueOp(k)
    \/ CleanupOp
    \/ \E k \in NonceKeys : DeleteOp(k)
    \/ ClearOp
    \/ Return

Spec == Init /\ [][Next]_vars

-----------------------------------------------------------------------------
(* A chain under test: createMiddlewareChain(middlewares, finalHandler)    *)
(* over middlewares that call next(), return a response of their own, or   *)
(* throw, and a final handler that returns or throws.                      *)

TestKinds == {"pass", "wrap", "short", "throw"}

Chains == UNION {[1..n -> TestKinds] : n \in 0..MaxChain}

TestRequest == [path |-> ApiPath, method |-> "GET", nonce |-> <<>>, ip |-> <<>>]

HandlerResponse == Response(OK, "handler")

ChainInit ==
    /\ data = <<>>
    /\ maxSize = 0
    /\ now = 0
    /\ inflight = EmptyBag
    /\ last = Idle
    /\ hist = [k \in NonceKeys |-> NoHist]
    /\ tampered = FALSE
    /\ chain \in Chains
    /\ run = NoRun
    /\ events = <<>>
    /\ RestInit

(* The chain is called: it runs down to the first middleware that does not *)
(* call next(), or into the final handler.                                 *)
ChainCall ==
    /\ run.phase = "idle"
    /\ LET down == dispatch(1, chain, TestRequest, <<>>, 0, 0)
       IN  run' = IF down.stop = "handler"
                  THEN [phase |-> "handler", log |-> down.log, out |-> NoRun.out]
                  ELSE [phase |-> "done", log |-> down.log, out |-> Stopped(chain, down)]
    /\ UNCHANGED <<chain, serverVars, events, restVars>>

(* The final handler returns a response or throws. *)
ChainHandlerDone(kind) ==
    /\ run.phase = "handler"
    /\ run' = [phase |-> "done", log |-> run.log,
               out |-> Resumed(chain, run.log, kind,
                               IF kind = "resp" THEN HandlerResponse ELSE NoResponse,
                               IF kind = "err" THEN PlainError("handler failed") ELSE NoError)]
    /\ UNCHANGED <<chain, serverVars, events, restVars>>

ChainNext ==
    \/ ChainCall
    \/ \E kind \in {"resp", "err"} : ChainHandlerDone(kind)

ChainSpec == ChainInit /\ [][ChainNext]_vars

-----------------------------------------------------------------------------
(* Properties of the nonce guard *)

ReachedGuard(l) ==
    \E i \in 1..Len(l.log) : l.log[i].mw = NonceIndex /\ l.log[i].ev = "enter"

ReachedRouter(l) ==
    \E i \in 1..Len(l.log) : l.log[i].mw = RouterIndex /\ l.log[i].ev = "enter"

(* The header is absent, empty or made of whitespace only. *)
HeaderBlank(req) ==
    \/ req.nonce = <<>>
    \/ \A i \in 1..Len(req.nonce[1]) : IsWhite(req.nonce[1][i])

Untouched == maxSize = 0 /\ ~tampered

(* C1 as claimed: on an unbounded store on which delete() and clear() are  *)
(* never called, once the guard has accepted nonce k at time t, every      *)
(* later request to an /api path carrying k that arrives before t + TTL is *)
(* rejected with DuplicateNonceError, whatever ran in between.             *)
C1_UniqueOnEveryApiRequest ==
    [][\A k \in NonceKeys :
          (/\ Untouched
           /\ hist[k].at >= 0
           /\ now < hist[k].at + NONCE_TTL
           /\ last'.op = "fetch"
           /\ StartsWith(last'.req.path, ApiPrefix)
           /\ last'.req.nonce = <<k>>)
          => last'.error = "DuplicateNonceError"]_vars

(* C1, amended: on such a store, once the guard has accepted nonce k at    *)
(* time t, every later request to an /api path, of a method other than     *)
(* OPTIONS, carrying k that arrives before t + TTL reaches the guard and   *)
(* is rejected with DuplicateNonceError, whatever ran in between.          *)
C1_UniqueWithinWindow ==
    [][\A k \in NonceKeys :
          (/\ Untouched
           /\ hist[k].at >= 0
           /\ now < hist[k].at + NONCE_TTL
           /\ last'.op = "fetch"
           /\ StartsWith(last'.req.path, ApiPrefix)
           /\ last'.req.method # "OPTIONS"
           /\ last'.req.nonce = <<k>>)
          => /\ ReachedGuard(last')
             /\ last'.error = "DuplicateNonceError"]_vars

(* A replay at the last instant of the window is rejected, after another   *)
(* nonce was accepted in between.                                          *)
C1_Witness ==
    /\ Untouched
    /\ last.op = "fetch"
    /\ last.error = "DuplicateNonceError"
    /\ \E k \in NonceKeys :
          /\ last.req.nonce = <<k>>
          /\ now = hist[k].at + NONCE_TTL - 1
          /\ \E j \in NonceKeys : j # k /\ hist[j].at > hist[k].at

SameNonceInFlight(f, g) ==
    /\ f.req.nonce = g.req.nonce
    /\ (f # g \/ CopiesIn(f, inflight) > 1)

(* C2 as claimed: of two requests with the same nonce that are in flight   *)
(* at the same time, at most one has passed the guard.                     *)
C2_AtMostOnePasses ==
    Untouched =>
        \A f, g \in BagToSet(inflight) : ~SameNonceInFlight(f, g)

(* C2, amended: check and store are one step, so while a request that      *)
(* passed the guard is suspended, a request with the same nonce arriving   *)
(* within the TTL of the first is rejected; two requests with the same     *)
(* nonce are both past the guard only if they arrived at least a TTL       *)
(* apart.                                                                  *)
C2_AtomicCheckAndStore ==
    Untouched =>
        /\ \A f, g \in BagToSet(inflight) :
              SameNonceInFlight(f, g) =>
                  (f.at >= g.at + NONCE_TTL \/ g.at >= f.at + NONCE_TTL)
        /\ \A f \in BagToSet(inflight) :
              (/\ last.op = "fetch"
               /\ ReachedGuard(last)
               /\ last.req.nonce = f.req.nonce
               /\ now < f.at + NONCE_TTL
               /\ last.outcome = "response")
              => last.error = "DuplicateNonceError"

(* A request is rejected as a duplicate while the request that stored the  *)
(* nonce and a request with another nonce are suspended in the router.     *)
C2_Witness ==
    /\ Untouched
    /\ last.op = "fetch"
    /\ last.error = "DuplicateNonceError"
    /\ \E f, g \in BagToSet(inflight) :
          /\ f.req.nonce = last.req.nonce
          /\ g.req.nonce # last.req.nonce

(* C3 as claimed: every request to a path other than the health path with  *)
(* an absent or whitespace-only nonce header is rejected with              *)
(* MissingNonceError.                                                      *)
C3_MissingRejectedOffHealth ==
    (/\ last.op = "fetch"
     /\ last.req.path # HealthPath
     /\ HeaderBlank(last.req))
    => last.error = "MissingNonceError"

(* C3, amended: every request to an /api path, of a method other than      *)
(* OPTIONS, with an absent or whitespace-only nonce header is rejected by  *)
(* the guard with MissingNonceError, answered 400, and the store is the    *)
(* same after the rejection as before it.                                  *)
C3_MissingRejectedOnApi ==
    [][(/\ last'.op = "fetch"
        /\ StartsWith(last'.req.path, ApiPrefix)
        /\ last'.req.method # "OPTIONS"
        /\ HeaderBlank(last'.req))
       => (/\ last'.error = "MissingNonceError"
           /\ last'.resp.status = BAD_REQUEST
           /\ ~ReachedRouter(last')
           /\ data' = data)]_vars

(* A whitespace-only header is rejected while the store holds an entry. *)
C3_Witness ==
    /\ last.op = "fetch"
    /\ last.error = "MissingNonceError"
    /\ last.req.nonce = <<<<"\f">>>>
    /\ data # <<>>

(* C4: a request to /health, whatever its nonce header, is not rejected    *)
(* for its nonce, runs no middleware of the chain, gets the health         *)
(* response and leaves the nonce store as it was.                          *)
C4_HealthBypass ==
    [][(/\ last'.op = "fetch"
        /\ last'.req.path = HealthPath)
       => (/\ last'.error = "none"
           /\ last'.log = <<>>
           /\ last'.resp = HealthResponse
           /\ data' = data)]_vars

(* A health request carrying a nonce the store already holds. *)
C4_Witness ==
    /\ last.op = "fetch"
    /\ last.req.path = HealthPath
    /\ last.req.nonce # <<>>
    /\ StorageHas(data, last.req.nonce[1])
    /\ last.resp.status = OK

(* C5: a request rejected with DuplicateNonceError leaves the store as it  *)
(* was: the entry of the nonce keeps its value and its expiresAt, and no   *)
(* entry is added or removed.                                              *)
C5_ReplayLeavesStore ==
    [][(/\ last'.op = "fetch"
        /\ last'.error = "DuplicateNonceError")
       => data' = data]_vars

(* A replay later than the acceptance: the entry still expires at          *)
(* acceptance time + TTL.                                                  *)
C5_Witness ==
    /\ last.op = "fetch"
    /\ last.error = "DuplicateNonceError"
    /\ \E k \in NonceKeys :
          /\ last.req.nonce = <<k>>
          /\ now > hist[k].at
          /\ MapGet(data, k) # <<>>
          /\ MapGet(data, k)[1].expiresAt = hist[k].at + NONCE_TTL

(* C6: once an expired entry of nonce k has been looked up by get(),        *)
(* getValue() or cleanup(), the next request carrying k that arrives at    *)
(* the guard is accepted and k is stored again, expiring a TTL from now.   *)
C6_ReusableAfterPurge ==
    [][\A k \in NonceKeys :
          (/\ hist[k].swept
           /\ last'.op = "fetch"
           /\ ReachedGuard(last')
           /\ last'.req.nonce = <<k>>)
          => (/\ last'.error = "none"
              /\ last'.outcome = "pending"
              /\ ReachedRouter(last')
              /\ MapGet(data', k) # <<>>
              /\ MapGet(data', k)[1].expiresAt = now + NONCE_TTL)]_vars

(* A nonce is accepted again a TTL after its first acceptance, on a store  *)
(* that lost the first entry to a read or a sweep, while the first request *)
(* is still suspended.                                                     *)
C6_Witness ==
    /\ Untouched
    /\ last.op = "fetch"
    /\ last.outcome = "pending"
    /\ \E f \in BagToSet(inflight) :
          /\ f.req.nonce = last.req.nonce
          /\ f.at + NONCE_TTL <= now
    /\ MapGet(data, last.req.nonce[1]) # <<>>
    /\ MapGet(data, last.req.nonce[1])[1].expiresAt = now + NONCE_TTL

(* C7 as claimed: the guard raises DuplicateNonceError for a nonce only    *)
(* while the store holds an unexpired entry for it, so a nonce reused      *)
(* after its TTL is accepted without any sweep.                            *)
C7_DuplicateOnlyWhileUnexpired ==
    (/\ last.op = "fetch"
     /\ last.error = "DuplicateNonceError")
    => (/\ MapGet(data, last.req.nonce[1]) # <<>>
        /\ MapGet(data, last.req.nonce[1])[1].expiresAt > now)

(* C8 as claimed: after acceptance getValue(nonce) is the record           *)
(* {timestamp, path, method, ip} of the accepting request and the entry    *)
(* expires at acceptance time + TTL.                                       *)
C8_StoresMetadata ==
    (/\ last.op = "fetch"
     /\ last.outcome = "pending")
    => (/\ GetValue(data, last.req.nonce[1], now).ret =
               <<[timestamp |-> now, path |-> last.req.path,
                  method |-> last.req.method, ip |-> RequestIP(last.req)]>>
        /\ MapGet(data, last.req.nonce[1])[1].expiresAt = now + NONCE_TTL)

NextCalls(log, i) == Cardinality({p \in 1..Len(log) : log[p].mw = i /\ log[p].ev = "next"})

Returned(log, i) == {log[p].resp : p \in {q \in 1..Len(log) : log[q].mw = i /\ log[q].ev = "return"}}

(* C9: a request rejected with MissingNonceError or DuplicateNonceError    *)
(* does not reach the router; a request the guard lets through has a       *)
(* nonce, and the guard has called next() once for it; and the response    *)
(* the guard returns is the one its next() returned.                       *)
C9_GuardOnlyGates ==
    /\ last.op \in {"fetch", "return"} =>
          /\ last.error \in {"MissingNonceError", "DuplicateNonceError"}
                => ~ReachedRouter(last)
          /\ ReachedRouter(last)
                => ReachedGuard(last) /\ ~HeaderBlank(last.req)
          /\ (ReachedGuard(last) /\ last.error = "none")
                => NextCalls(last.log, NonceIndex) = 1 /\ ReachedRouter(last)
          /\ (last.op = "return" /\ last.error = "none")
                => /\ Cardinality(Returned(last.log, RouterIndex)) = 1
                   /\ Returned(last.log, NonceIndex) = Returned(last.log, RouterIndex)
    /\ \A f \in BagToSet(inflight) :
          /\ ~HeaderBlank(f.req)
          /\ NextCalls(f.log, NonceIndex) = 1

(* The router's response has come back through the guard unchanged. *)
C9_Witness ==
    /\ last.op = "return"
    /\ last.error = "none"
    /\ Returned(last.log, NonceIndex) = {[RouterResponse EXCEPT !.headers = {"x-request-id"}]}
    /\ last.resp.status = OK

RunLog == IF run.phase = "done" THEN run.out.log ELSE run.log

Entered(i) == \E p \in 1..Len(RunLog) : RunLog[p].mw = i /\ RunLog[p].ev = "enter"

HandlerIndex == Len(chain) + 1

HandlerReturns == {p \in 1..Len(RunLog) : RunLog[p].mw = HandlerIndex /\ RunLog[p].ev = "return"}

(* C10: in a chain M1..Mn with final handler H, Mi+1 (or H after Mn)       *)
(* starts only at the moment Mi calls next(); after a middleware that      *)
(* returns or throws without calling next() nothing further down starts;   *)
(* and a response of H passes back through Mn, ..., M1 in that order, each *)
(* one handing on what it received, with its own mark added if it          *)
(* transforms responses.                                                   *)
C10_ChainOrder ==
    /\ \A p \in 1..Len(RunLog) :
          RunLog[p].ev = "enter" =>
             IF p = 1 THEN RunLog[p].mw = 1
             ELSE /\ RunLog[p].mw > 1
                  /\ RunLog[p - 1] = Ev(RunLog[p].mw - 1, "next", NoResponse)
    /\ \A i \in 1..Len(chain) :
          /\ (Entered(i) /\ chain[i] \in {"short", "throw"})
                => \A j \in (i + 1)..HandlerIndex : ~Entered(j)
          /\ (Entered(i) /\ chain[i] \in {"pass", "wrap"}) => Entered(i + 1)
    /\ (run.phase = "done" /\ HandlerReturns # {}) =>
          LET p == CHOOSE q \in HandlerReturns : TRUE
              n == Len(chain)
          IN  /\ HandlerReturns = {p}
              /\ RunLog[p].resp = HandlerResponse
              /\ Len(RunLog) = p + n
              /\ \A m \in 1..n :
                    /\ RunLog[p + m].mw = n + 1 - m
                    /\ RunLog[p + m].ev = "return"
                    /\ RunLog[p + m].resp =
                          IF chain[n + 1 - m] = "wrap"
                          THEN [RunLog[p + m - 1].resp EXCEPT !.tags = Append(@, n + 1 - m)]
                          ELSE RunLog[p + m - 1].resp
              /\ run.out.kind = "resp"
              /\ run.out.resp = RunLog[Len(RunLog)].resp

(* The handler's response has been transformed by M2 and then by M1. *)
C10_Witness ==
    /\ run.phase = "done"
    /\ Len(chain) >= 2
    /\ chain[1] = "wrap"
    /\ chain[2] = "wrap"
    /\ HandlerReturns # {}
    /\ run.out.resp.tags = <<2, 1>>

Throws == {p \in 1..Len(RunLog) : RunLog[p].ev = "throw"}

InternalServerErrorResponse(text) ==
    [status |-> INTERNAL_SERVER_ERROR, body |-> "json", error |-> "InternalServerError",
     message |-> [text |-> text, nonce |-> <<>>], headers |-> {}, tags |-> <<>>]

(* C11: when a middleware Mi or the final handler H throws, the caller of  *)
(* the chain gets that same exception and not a response, nothing starts   *)
(* after the throw, every middleware above the thrower sees the exception  *)
(* pass (Mi-1, ..., M1, none of them returning a response), and the        *)
(* conversion at the fetch boundary is the first and only one; a chain in  *)
(* which nothing throws ends in a response.                                *)
C11_ErrorsPassThrough ==
    run.phase = "done" =>
       /\ (Throws = {}) => run.out.kind = "resp"
       /\ (Throws # {}) =>
             LET p == CHOOSE q \in Throws : \A r \in Throws : q <= r
                 i == RunLog[p].mw
                 text == IF i = HandlerIndex THEN "handler failed" ELSE "middleware failed"
             IN  /\ i = HandlerIndex \/ chain[i] = "throw"
                 /\ run.out.kind = "err"
                 /\ run.out.err = [name |-> "Error",
                                   message |-> [text |-> text, nonce |-> <<>>],
                                   statusCode |-> 0, isApp |-> FALSE]
                 /\ run.out.resp = NoResponse
                 /\ Len(RunLog) = p + i - 1
                 /\ \A m \in 1..(i - 1) : RunLog[p + m] = Ev(i - m, "throw", NoResponse)
                 /\ \A j \in (i + 1)..HandlerIndex : ~Entered(j)
                 /\ AtBoundary(run.out) = InternalServerErrorResponse(text)

(* The final handler has thrown below two middlewares, the upper of which  *)
(* transforms responses.                                                   *)
C11_Witness ==
    /\ run.phase = "done"
    /\ Len(chain) = 2
    /\ chain[1] = "wrap"
    /\ run.out.kind = "err"
    /\ run.out.err.message.text = "handler failed"
    /\ RunLog[Len(RunLog)] = Ev(1, "throw", NoResponse)

(* C12: an OPTIONS request to a path under /api is answered by the CORS    *)
(* middleware; the nonce guard and the router do not run, no nonce error   *)
(* is raised and the nonce store is unchanged, with or without a nonce     *)
(* header.                                                                 *)
C12_PreflightAnsweredByCors ==
    [][(/\ last'.op = "fetch"
        /\ last'.req.method = "OPTIONS"
        /\ StartsWith(last'.req.path, ApiPrefix))
       => (/\ last'.outcome = "response"
           /\ last'.error = "none"
           /\ last'.log = <<Ev(1, "enter", NoResponse), Ev(1, "return", last'.resp)>>
           /\ ~ReachedGuard(last')
           /\ ~ReachedRouter(last')
           /\ last'.resp.headers = CORS_HEADERS
           /\ last'.resp.status = OK
           /\ data' = data
           /\ inflight' = inflight)]_vars

(* A preflight carrying a nonce that is in the store has been answered. *)
C12_Witness ==
    /\ last.op = "fetch"
    /\ last.req.method = "OPTIONS"
    /\ StartsWith(last.req.path, ApiPrefix)
    /\ last.req.nonce # <<>>
    /\ MapHas(data, last.req.nonce[1])
    /\ last.resp.headers = CORS_HEADERS

(* C13: a request rejected for a missing nonce is answered 400 with error  *)
(* name MissingNonceError; a request rejected for a duplicate nonce is     *)
(* answered 422 with error name DuplicateNonceError and a message that     *)
(* holds the nonce; an error that is not an AppError is answered 500.      *)
C13_StatusByErrorClass ==
    /\ (last.op = "fetch" /\ ReachedGuard(last) /\ HeaderBlank(last.req))
          => /\ last.resp.status = 400
             /\ last.resp.error = "MissingNonceError"
             /\ last.resp.message = [text |-> "X-Nonce header is required", nonce |-> <<>>]
    /\ (last.op = "fetch" /\ ReachedGuard(last) /\ ~HeaderBlank(last.req)
          /\ last.outcome = "response")
          => /\ last.resp.status = 422
             /\ last.resp.error = "DuplicateNonceError"
             /\ last.resp.message = [text |-> "Nonce already used: ", nonce |-> last.req.nonce[1]]
    /\ (last.op = "return" /\ last.error = "Error")
          => /\ last.resp.status = 500
             /\ last.resp.error = "InternalServerError"
    /\ (last.op = "return" /\ last.error = "ValidationError")
          => /\ last.resp.status = 400
             /\ last.resp.error = "ValidationError"

(* A replayed nonce has been answered 422 with the nonce in the message. *)
C13_Witness ==
    /\ last.op = "fetch"
    /\ last.error = "DuplicateNonceError"
    /\ last.resp.status = 422
    /\ last.resp.message.nonce = <<"a">>

(* C14 as claimed: the body answered for an error that is not an AppError  *)
(* is generic and does not hold the message of the thrown error.           *)
C14_NoDetailInBody ==
    (last.op = "return" /\ last.error = "Error")
    => (/\ last.resp.status = 500
        /\ last.resp.message.text # "upstream failed")

-----------------------------------------------------------------------------
(* A TTL store under test: an InMemoryStorageWithTTL with one listener,     *)
(* called with setWithTTL, get, getValue, has, getAll, values, cleanup and *)
(* delete while its clock advances.                                        *)

StoreKeys == {<<"a">>, <<"b">>}
StoreValues == {"x"}
StoreTtls == {1, 2}

StoreInit ==
    /\ data = <<>>
    /\ maxSize = 0
    /\ now = 0
    /\ inflight = EmptyBag
    /\ last = Idle
    /\ hist = [k \in NonceKeys |-> NoHist]
    /\ tampered = FALSE
    /\ chain = <<>>
    /\ run = NoRun
    /\ events = <<>>
    /\ RestInit

(* One call on the store: what it leaves in the map, what it returns and   *)
(* what it emits.                                                          *)
StoreCall(op, k, d, ret, emitted) ==
    /\ data' = d
    /\ events' = events \o emitted
    /\ last' = [op |-> op, key |-> k, ret |-> ret]
    /\ UNCHANGED <<maxSize, now, inflight, hist, tampered, chainVars, restVars>>

StoreSetWithTTL(k, v, ttl) ==
    /\ Len(events) < MaxEvents
    /\ LET r == SetWithTTL(data, maxSize, k, v, ttl, now)
       IN  StoreCall("setWithTTL", k, r.data, <<>>, r.events)

StoreGet(k) ==
    LET r == TTLGet(data, k, now) IN StoreCall("get", k, r.data, r.ret, r.events)

StoreGetValue(k) ==
    LET r == GetValue(data, k, now) IN StoreCall("getValue", k, r.data, r.ret, r.events)

(* A has() that expires what it finds, as get() does. *)
StoreHasLazy(k) ==
    LET r == TTLGet(data, k, now) IN StoreCall("has", k, r.data, r.ret # <<>>, r.events)

StoreHas(k) == StoreCall("has", k, data, StorageHas(data, k), <<>>)

StoreGetAll == StoreCall("getAll", <<>>, data, GetAll(data, now), <<>>)

StoreValuesCall == StoreCall("values", <<>>, data, Values(data), <<>>)

StoreCleanup ==
    LET r == Cleanup(data, now) IN StoreCall("cleanup", <<>>, r.data, r.ret, r.events)

StoreDelete(k) ==
    LET r == StorageDelete(data, k) IN StoreCall("delete", k, r.data, r.ret, r.events)

StoreTick ==
    /\ now < MaxTime
    /\ now' = now + 1
    /\ last' = [op |-> "tick"]
    /\ UNCHANGED <<data, maxSize, inflight, hist, tampered, chainVars, events, restVars>>

StoreNext ==
    \/ \E k \in StoreKeys, v \in StoreValues, ttl \in StoreTtls : StoreSetWithTTL(k, v, ttl)
    \/ \E k \in StoreKeys : StoreGet(k)
    \/ \E k \in StoreKeys : StoreGetValue(k)
    \/ \E k \in StoreKeys : StoreHas(k)
    \/ StoreGetAll
    \/ StoreValuesCall
    \/ StoreCleanup
    \/ \E k \in StoreKeys : StoreDelete(k)
    \/ StoreTick

StoreSpec == StoreInit /\ [][StoreNext]_vars

-----------------------------------------------------------------------------
(* A bounded store under test: sets of new and of present keys, reads and  *)
(* deletes on a store with maxSize > 0.                                    *)

EvictKeys == {<<"a">>, <<"b">>, <<"c">>}
EvictValues == {"x", "y"}
EvictSizes == {1, 2}

EvictInit ==
    /\ data = <<>>
    /\ maxSize \in EvictSizes
    /\ now = 0
    /\ inflight = EmptyBag
    /\ last = Idle
    /\ hist = [k \in NonceKeys |-> NoHist]
    /\ tampered = FALSE
    /\ chain = <<>>
    /\ run = NoRun
    /\ events = <<>>
    /\ RestInit

EvictNext ==
    \/ \E k \in EvictKeys, v \in EvictValues : StoreSetWithTTL(k, v, NONCE_TTL)
    \/ \E k \in EvictKeys : StoreGet(k)
    \/ \E k \in EvictKeys : StoreDelete(k)

EvictSpec == EvictInit /\ [][EvictNext]_vars

-----------------------------------------------------------------------------

KeysOf(d) == {d[i].k : i \in 1..Len(d)}

(* The events this step has delivered. *)
Emitted == SubSeq(events', Len(events) + 1, Len(events'))

(* The position in the listener's log of the set that inserted the entry   *)
(* of k that is now present: the first set of k after k was last removed.  *)
Born(k) ==
    LET gone == {q \in 1..Len(events) :
                    events[q].key = k /\ events[q].type \in {"evict", "delete", "expire"}}
        sets == {q \in 1..Len(events) :
                    /\ events[q] = Event("set", k)
                    /\ \A g \in gone : g < q}
    IN  CHOOSE q \in sets : \A r \in sets : q <= r

(* C15: set() of a key that is not in a full store (maxSize = k > 0, k     *)
(* entries) removes exactly the entry that was inserted first among those  *)
(* present, whatever reads and overwrites followed its insertion, emits    *)
(* evict for that key and then set for the new key, and inserts the new    *)
(* key; any other set() removes nothing and emits no evict.                *)
C15_FifoEviction ==
    [][(last'.op = "setWithTTL") =>
          LET k == last'.key
              present == KeysOf(data)
          IN  IF k \notin present /\ Cardinality(present) = maxSize
              THEN \E e \in present :
                      /\ \A o \in present : Born(e) <= Born(o)
                      /\ Emitted = <<Event("evict", e), Event("set", k)>>
                      /\ KeysOf(data') = (present \ {e}) \cup {k}
                      /\ \A o \in present \ {e} : MapGet(data', o) = MapGet(data, o)
              ELSE /\ Emitted = <<Event("set", k)>>
                   /\ KeysOf(data') = present \cup {k}
                   /\ \A o \in present \ {k} : MapGet(data', o) = MapGet(data, o)]_vars

(* In a store of two, a and b were inserted, a was overwritten, and the    *)
(* insertion of c has evicted a.                                           *)
C15_Witness ==
    /\ maxSize = 2
    /\ events = <<Event("set", <<"a">>), Event("set", <<"b">>), Event("set", <<"a">>),
                  Event("evict", <<"a">>), Event("set", <<"c">>)>>
    /\ KeysOf(data) = {<<"b">>, <<"c">>}

Expires(log) == SelectSeq(log, LAMBDA e : e.type = "expire")

(* The map is as before but for the entry of k, which is gone. *)
OnlyRemoved(k) ==
    /\ KeysOf(data') = KeysOf(data) \ {k}
    /\ \A o \in KeysOf(data') : MapGet(data', o) = MapGet(data, o)

(* C16: get(k) and getValue(k) of an entry with expiresAt <= now delete    *)
(* the entry, emit one expire event, for k, and return undefined; of an    *)
(* entry with expiresAt > now they return the entry (get) or its value     *)
(* (getValue), emit nothing and leave the map as it is.                    *)
C16_LazyExpiryOnRead ==
    [][(last'.op \in {"get", "getValue"}) =>
          LET k == last'.key
              item == MapGet(data, k)
          IN  IF item = <<>>
              THEN last'.ret = <<>> /\ data' = data /\ Emitted = <<>>
              ELSE IF item[1].expiresAt <= now
              THEN /\ last'.ret = <<>>
                   /\ OnlyRemoved(k)
                   /\ Expires(Emitted) = <<Event("expire", k)>>
              ELSE /\ last'.ret = IF last'.op = "get" THEN item ELSE <<item[1].value>>
                   /\ data' = data
                   /\ Emitted = <<>>]_vars

(* getValue() has found an expired entry and has removed it, while another *)
(* entry stays.                                                            *)
C16_Witness ==
    /\ last.op = "getValue"
    /\ last.ret = <<>>
    /\ Len(events) >= 3
    /\ events[Len(events)] = Event("expire", last.key)
    /\ ~MapHas(data, last.key)
    /\ Len(data) = 1

(* C17: has(k) of an entry with expiresAt <= now that is still in the map  *)
(* returns true, emits nothing and leaves the entry where it is, while     *)
(* get(k) in that same state returns undefined.                            *)
C17_HasIgnoresExpiry ==
    [][(/\ last'.op = "has"
        /\ MapGet(data, last'.key) # <<>>
        /\ MapGet(data, last'.key)[1].expiresAt <= now)
       => (/\ last'.ret = TRUE
           /\ data' = data
           /\ Emitted = <<>>
           /\ TTLGet(data, last'.key, now).ret = <<>>)]_vars

(* has() has answered true for an entry that expired an instant ago. *)
C17_Witness ==
    /\ last.op = "has"
    /\ last.ret = TRUE
    /\ MapGet(data, last.key) # <<>>
    /\ MapGet(data, last.key)[1].expiresAt < now

(* C18: cleanup() at time now leaves exactly the entries that had          *)
(* expiresAt > now, unchanged and in their order, emits one expire event   *)
(* for each entry it removed and no other event, and returns the number of *)
(* entries removed.                                                        *)
C18_CleanupExactSweep ==
    [][(last'.op = "cleanup") =>
          LET removed == {k \in KeysOf(data) : MapGet(data, k)[1].expiresAt <= now}
          IN  /\ KeysOf(data') = KeysOf(data) \ removed
              /\ data' = SelectSeq(data, LAMBDA e : e.k \notin removed)
              /\ Len(Emitted) = Cardinality(removed)
              /\ {Emitted[i] : i \in 1..Len(Emitted)} = {Event("expire", k) : k \in removed}
              /\ last'.ret = Cardinality(removed)]_vars

(* cleanup() has removed one entry and kept another. *)
C18_Witness ==
    /\ last.op = "cleanup"
    /\ last.ret = 1
    /\ Len(data) = 1
    /\ data[1].v.expiresAt > now
    /\ events[Len(events)].type = "expire"

(* No entry has expired twice: between two expire events of a key the key  *)
(* was set again.                                                          *)
ExpireOnce(log) ==
    \A p, q \in 1..Len(log) :
       (p < q /\ log[p].type = "expire" /\ log[q] = log[p])
       => \E r \in (p + 1)..(q - 1) : log[r] = Event("set", log[p].key)

(* The entry of k was removed by a read (delete, then expire) and k has    *)
(* not been set since.                                                     *)
RemovedByRead(k) ==
    \E p \in 2..Len(events) :
       /\ events[p] = Event("expire", k)
       /\ events[p - 1] = Event("delete", k)
       /\ \A r \in (p + 1)..Len(events) : events[r] # Event("set", k)

(* C19: over all interleavings of the store's calls, no entry causes more  *)
(* than one expire event, whether a read or a sweep finds it; an entry a   *)
(* read has removed is not in the map any more, so no later getAll()       *)
(* returns it and no later cleanup() emits expire for it or counts it.     *)
C19_ExpiryFiresOnce ==
    [][/\ ExpireOnce(events')
       /\ \A k \in StoreKeys :
             /\ Len(SelectSeq(Emitted, LAMBDA e : e = Event("expire", k))) <= 1
             /\ RemovedByRead(k) =>
                   /\ ~MapHas(data, k)
                   /\ last'.op \in {"getAll", "cleanup", "get", "getValue"}
                         => \A i \in 1..Len(Emitted) : Emitted[i].key # k
       /\ last'.op = "getAll" =>
             /\ Len(last'.ret) <= Len(data)
             /\ \A i \in 1..Len(last'.ret) :
                   \E j \in 1..Len(data) : data[j].v = last'.ret[i]
       /\ last'.op = "cleanup" =>
             /\ last'.ret = Len(Emitted)
             /\ last'.ret <= Len(data)]_vars

(* A read has removed the expired entry of one key, and the cleanup() that *)
(* followed has counted only the expired entry of the other key.           *)
C19_Witness ==
    /\ last.op = "cleanup"
    /\ last.ret = 1
    /\ \E k \in StoreKeys : RemovedByRead(k)
    /\ Len(Expires(events)) = 2
    /\ data = <<>>

(* C20 as claimed: getAll() and values() each return exactly the entries   *)
(* with expiresAt > now, remove nothing and emit nothing.                  *)
C20_SnapshotsFilter ==
    [][(last'.op \in {"getAll", "values"}) =>
          /\ last'.ret = SelectSeq([i \in 1..Len(data) |-> data[i].v],
                                   LAMBDA item : item.expiresAt > now)
          /\ data' = data
          /\ Emitted = <<>>]_vars

-----------------------------------------------------------------------------
(* The interval timers of a TTL store: those its constructors schedule and *)
(* those startCleanup() and stopCleanup() schedule and clear.              *)

(* The constructor of InMemoryStorage: with autoCleanup and a defaultTTL   *)
(* it schedules an interval of its own, whose handle it does not keep.     *)
BaseConstructor(opts) ==
    [NoTimers EXCEPT !.noop = IF opts.autoCleanup /\ opts.defaultTTL > 0 THEN 1 ELSE 0]

stopCleanup(tm) ==
    IF tm.cleanupTimer
    THEN [tm EXCEPT !.sweep = @ - 1, !.cleanupTimer = FALSE]
    ELSE tm

startCleanup(tm, opts) ==
    LET stopped == stopCleanup(tm)
    IN  IF opts.cleanupInterval > 0
        THEN [stopped EXCEPT !.sweep = @ + 1, !.cleanupTimer = TRUE]
        ELSE stopped

(* A constructor that starts the sweep only when a defaultTTL is given. *)
TTLConstructorNeedsDefaultTtl(opts) ==
    IF opts.autoCleanup /\ opts.defaultTTL > 0
    THEN startCleanup(BaseConstructor(opts), opts)
    ELSE BaseConstructor(opts)

(* The constructor of InMemoryStorageWithTTL. *)
TTLConstructor(opts) ==
    IF opts.autoCleanup /\ opts.cleanupInterval > 0
    THEN startCleanup(BaseConstructor(opts), opts)
    ELSE BaseConstructor(opts)

TimerOptions ==
    {[DefaultOptions EXCEPT !.autoCleanup = a, !.defaultTTL = d, !.cleanupInterval = c] :
        a \in BOOLEAN, d \in {0, 1}, c \in {0, 1}}

TimerInit ==
    /\ data = <<>>
    /\ maxSize = 0
    /\ now = 0
    /\ inflight = EmptyBag
    /\ last = Idle
    /\ hist = [k \in NonceKeys |-> NoHist]
    /\ tampered = FALSE
    /\ chain = <<>>
    /\ run = NoRun
    /\ events = <<>>
    /\ options \in TimerOptions
    /\ listeners = <<>>
    /\ timers = TTLConstructor(options)
    /\ sem = NoSem

TimerUnchanged == UNCHANGED <<maxSize, inflight, hist, tampered, chainVars, events,
                              options, listeners, sem>>

TimerSet(k, ttl) ==
    /\ data' = SetWithTTL(data, maxSize, k, "x", ttl, now).data
    /\ last' = [op |-> "setWithTTL"]
    /\ UNCHANGED <<now, timers>>
    /\ TimerUnchanged

TimerTick ==
    /\ now < MaxTime
    /\ now' = now + 1
    /\ last' = [op |-> "tick"]
    /\ UNCHANGED <<data, timers>>
    /\ TimerUnchanged

StartCleanup ==
    /\ timers' = startCleanup(timers, options)
    /\ last' = [op |-> "startCleanup"]
    /\ UNCHANGED <<data, now>>
    /\ TimerUnchanged

StopCleanup ==
    /\ timers' = stopCleanup(timers)
    /\ last' = [op |-> "stopCleanup"]
    /\ UNCHANGED <<data, now>>
    /\ TimerUnchanged

(* The interval of startCleanup() fires: cleanup(). *)
SweepFires ==
    /\ timers.sweep > 0
    /\ data' = Cleanup(data, now).data
    /\ last' = [op |-> "sweep",
                removed |-> [i \in 1..Cleanup(data, now).ret |-> Cleanup(data, now).events[i].key]]
    /\ UNCHANGED <<now, timers>>
    /\ TimerUnchanged

TimerNext ==
    \/ \E k \in StoreKeys, ttl \in StoreTtls : TimerSet(k, ttl)
    \/ TimerTick
    \/ StartCleanup
    \/ StopCleanup
    \/ SweepFires

TimerSpec == TimerInit /\ [][TimerNext]_vars

(* C21 as claimed: whatever the options and the calls of startCleanup()    *)
(* and stopCleanup(), the store has at most one interval scheduled, and    *)
(* none once stopCleanup() has returned.                                   *)
C21_OneCancelableTimer ==
    /\ timers.noop + timers.sweep <= 1
    /\ last.op = "stopCleanup" => timers.noop + timers.sweep = 0

-----------------------------------------------------------------------------
(* The nonce store with its cleanup timer left running: requests arrive at *)
(* the guard, time passes, nothing reads the store or calls stopCleanup(), *)
(* and the event loop runs the interval callback whenever it is due, which *)
(* is weak fairness of SweepFires.                                         *)

(* The requests under /api that carry nonce k and are not preflights. *)
RequestsWith(k) ==
    {req \in Requests : req.path = ApiPath /\ req.method = "GET" /\ req.nonce = <<k>>}

(* A request arrives at the guard. *)
SweepGuard(req) ==
    LET g == createNonceMiddleware(NONCE_TTL, req, data, maxSize, now)
    IN  /\ data' = g.data
        /\ last' = [op |-> "guard", key |-> req.nonce[1], act |-> g.act]
        /\ UNCHANGED <<now, timers>>
        /\ TimerUnchanged

SweepTick(t) ==
    /\ t \in Instants
    /\ t > now
    /\ now' = t
    /\ last' = [op |-> "tick"]
    /\ UNCHANGED <<data, timers>>
    /\ TimerUnchanged

SweepNext ==
    \/ \E k \in NonceKeys : \E req \in RequestsWith(k) : SweepGuard(req)
    \/ \E t \in Instants : SweepTick(t)
    \/ SweepFires

SweepSpec == TimerInit /\ [][SweepNext]_vars /\ WF_vars(SweepFires)

AutoSweeping == options.autoCleanup /\ options.cleanupInterval > 0

ExpiredPresent(k) == \E i \in 1..Len(data) : data[i].k = k /\ isExpired(data[i].v, now)

(* A request carrying nonce k that arrived now would pass the guard. *)
Acceptable(k) ==
    \A req \in RequestsWith(k) :
        createNonceMiddleware(NONCE_TTL, req, data, maxSize, now).act = "next"

(* C22: in a store built with autoCleanup and a cleanupInterval > 0 whose  *)
(* timer is not stopped, an entry that has expired is eventually removed   *)
(* by the timer alone, without any read of it, and the nonce it was stored *)
(* for is then accepted by the guard again.                                *)
C22_ExpiredEventuallySwept ==
    \A k \in NonceKeys :
        (AutoSweeping /\ ExpiredPresent(k)) ~> (~MapHas(data, k) /\ Acceptable(k))

(* C22 witness: the guard accepted a nonce, its entry lived a full TTL,    *)
(* and the timer of the auto-sweeping store has just removed it: the nonce *)
(* is acceptable again although nothing read the store.                    *)
C22_Witness ==
    /\ AutoSweeping
    /\ last.op = "sweep"
    /\ now >= NONCE_TTL
    /\ \E k \in NonceKeys :
          /\ \E i \in 1..Len(last.removed) : last.removed[i] = k
          /\ ~MapHas(data, k)
          /\ Acceptable(k)

-----------------------------------------------------------------------------
(* Event listeners: on(), the function on() returns, and emit().  The      *)
(* variable listeners holds the Set of subscribed listeners in insertion   *)
(* order and, for the claims, what each listener has been called with.     *)

Listeners == {"bad", "good"}

(* The listener "bad" throws from every call. *)
ListenerThrows(id) == id = "bad"

NoListeners == [subs |-> <<>>, received |-> [id \in Listeners |-> <<>>]]

Subscribed(ls, id) == \E i \in 1..Len(ls.subs) : ls.subs[i] = id

on(ls, id) ==
    IF Subscribed(ls, id) THEN ls ELSE [ls EXCEPT !.subs = Append(@, id)]

unsubscribe(ls, id) ==
    [ls EXCEPT !.subs = SelectSeq(@, LAMBDA l : l # id)]

(* An emit() whose loop has no try/catch: the first throw of a listener *)
(* ends the loop and leaves emit().                                     *)
RECURSIVE emitFromNoCatch(_, _, _)
emitFromNoCatch(ls, i, event) ==
    IF i > Len(ls.subs)
    THEN [listeners |-> ls, thrown |-> FALSE]
    ELSE LET id == ls.subs[i]
             called == [ls EXCEPT !.received[id] = Append(@, event)]
         IN  IF ListenerThrows(id)
             THEN [listeners |-> called, thrown |-> TRUE]
             ELSE emitFromNoCatch(called, i + 1, event)

(* The loop of emit() from listener number i on: each listener is called *)
(* inside a try/catch, which logs what the listener throws.              *)
RECURSIVE emitFrom(_, _, _)
emitFrom(ls, i, event) ==
    IF i > Len(ls.subs)
    THEN [listeners |-> ls, thrown |-> FALSE]
    ELSE LET id == ls.subs[i]
             called == [ls EXCEPT !.received[id] = Append(@, event)]
         IN  emitFrom(called, i + 1, event)

emit(ls, event) == emitFrom(ls, 1, event)

(* The emit() calls of one operation, in order; a throw ends the operation. *)
RECURSIVE emitAll(_, _)
emitAll(ls, evs) ==
    IF evs = <<>>
    THEN [listeners |-> ls, thrown |-> FALSE]
    ELSE LET r == emit(ls, Head(evs))
         IN  IF r.thrown THEN r ELSE emitAll(r.listeners, Tail(evs))

ObserverSizes == {0, 1}

ObserverInit ==
    /\ data = <<>>
    /\ maxSize \in ObserverSizes
    /\ now = 0
    /\ inflight = EmptyBag
    /\ last = Idle
    /\ hist = [k \in NonceKeys |-> NoHist]
    /\ tampered = FALSE
    /\ chain = <<>>
    /\ run = NoRun
    /\ events = <<>>
    /\ options = DefaultOptions
    /\ listeners = NoListeners
    /\ timers = NoTimers
    /\ sem = NoSem

ObserverUnchanged == UNCHANGED <<maxSize, now, inflight, hist, tampered, chainVars,
                                 options, timers, sem>>

ObserverOn(id) ==
    /\ listeners' = on(listeners, id)
    /\ last' = [op |-> "on", key |-> id, thrown |-> FALSE]
    /\ UNCHANGED <<data, events>>
    /\ ObserverUnchanged

(* A call of the function that on(id) returned. *)
ObserverOff(id) ==
    /\ Subscribed(listeners, id)
    /\ listeners' = unsubscribe(listeners, id)
    /\ last' = [op |-> "off", key |-> id, thrown |-> FALSE]
    /\ UNCHANGED <<data, events>>
    /\ ObserverUnchanged

ObserverCall(op, k, r) ==
    LET e == emitAll(listeners, r.events)
    IN  /\ Len(events) < MaxObserved
        /\ data' = r.data
        /\ listeners' = e.listeners
        /\ events' = events \o r.events
        /\ last' = [op |-> op, key |-> k, thrown |-> e.thrown]
        /\ ObserverUnchanged

ObserverSet(k, v) == ObserverCall("set", k, StorageSet(data, maxSize, k, v))

ObserverDelete(k) == ObserverCall("delete", k, StorageDelete(data, k))

ObserverDeleteMany(k1, k2) ==
    ObserverCall("deleteMany", <<k1, k2>>, deleteMany(data, <<k1, k2>>))

ObserverClear == ObserverCall("clear", <<>>, StorageClear(data))

ObserverNext ==
    \/ \E id \in Listeners : ObserverOn(id)
    \/ \E id \in Listeners : ObserverOff(id)
    \/ \E k \in StoreKeys, v \in StoreValues : ObserverSet(k, v)
    \/ \E k \in StoreKeys : ObserverDelete(k)
    \/ \E k1, k2 \in StoreKeys : ObserverDeleteMany(k1, k2)
    \/ ObserverClear

ObserverSpec == ObserverInit /\ [][ObserverNext]_vars

Mutations == {"set", "delete", "deleteMany", "clear"}

(* C23: a mutating operation on a store with a throwing listener completes *)
(* without an exception, every listener subscribed when it starts is       *)
(* called with each of its events, in order, and a listener that is not    *)
(* subscribed (never was, or has unsubscribed) is called with nothing.     *)
C23_ListenersIsolated ==
    [][last'.op \in Mutations =>
        /\ last'.thrown = FALSE
        /\ last'.op = "set" => MapHas(data', last'.key)
        /\ last'.op = "delete" => ~MapHas(data', last'.key)
        /\ last'.op = "deleteMany" =>
              \A i \in 1..Len(last'.key) : ~MapHas(data', last'.key[i])
        /\ last'.op = "clear" => data' = <<>>
        /\ \/ Emitted # <<>>
           \/ last'.op = "delete" /\ ~MapHas(data, last'.key)
           \/ last'.op = "deleteMany" /\ \A i \in 1..Len(last'.key) : ~MapHas(data, last'.key[i])
        /\ \A id \in Listeners :
              listeners'.received[id] =
                  IF Subscribed(listeners, id)
                  THEN listeners.received[id] \o Emitted
                  ELSE listeners.received[id]
        /\ listeners'.subs = listeners.subs]_vars

(* C23 witness: the throwing listener subscribed first and was called with *)
(* two set events; the listener subscribed after it was called with the    *)
(* second one, and set() returned normally.                                *)
C23_Witness ==
    /\ last.op = "set"
    /\ last.thrown = FALSE
    /\ listeners.subs = <<"bad", "good">>
    /\ Len(listeners.received["bad"]) = 2
    /\ listeners.received["good"] = <<Event("set", last.key)>>
    /\ MapHas(data, last.key)

-----------------------------------------------------------------------------
(* query(options) of InMemoryStorage.  An option that is not given is <<>>, *)
(* one that is given is <<its value>>; values are numbers, filters and     *)
(* comparators are named.                                                  *)

StorageGetAll(d) == [i \in 1..Len(d) |-> d[i].v]

QueryFilter(name, v) == IF name = "odd" THEN v % 2 = 1 ELSE v > 1

(* The number a comparator returns: negative when a sorts before b. *)
QueryCompare(name, a, b) == IF name = "asc" THEN a - b ELSE b - a

(* Array.prototype.sort: stable, by insertion from the left. *)
RECURSIVE Insert(_, _, _)
Insert(sorted, v, cmp) ==
    IF sorted = <<>> THEN <<v>>
    ELSE IF QueryCompare(cmp, v, sorted[Len(sorted)]) < 0
         THEN Append(Insert(SubSeq(sorted, 1, Len(sorted) - 1), v, cmp), sorted[Len(sorted)])
         ELSE Append(sorted, v)

RECURSIVE Sort(_, _)
Sort(s, cmp) ==
    IF s = <<>> THEN <<>>
    ELSE Insert(Sort(SubSeq(s, 1, Len(s) - 1), cmp), s[Len(s)], cmp)

(* Array.prototype.slice for arguments that are not negative. *)
Slice(s, from, to) ==
    SubSeq(s, from + 1, IF to < Len(s) THEN to ELSE Len(s))

(* What `if (option)` tests for a number option: given and not 0. *)
TruthyNumber(opt) == opt # <<>> /\ opt[1] # 0

query(d, opts) ==
    LET all == StorageGetAll(d)
        filtered == IF opts.filter # <<>>
                    THEN SelectSeq(all, LAMBDA v : QueryFilter(opts.filter[1], v))
                    ELSE all
        sorted == IF opts.sort # <<>> THEN Sort(filtered, opts.sort[1]) ELSE filtered
        skipped == IF TruthyNumber(opts.offset)
                   THEN Slice(sorted, opts.offset[1], Len(sorted))
                   ELSE sorted
    IN  IF TruthyNumber(opts.limit) THEN Slice(skipped, 0, opts.limit[1]) ELSE skipped

QueryKeys == <<<<"a">>, <<"b">>, <<"c">>>>
QueryValues == 1..3
QueryNumbers == {<<>>} \cup {<<n>> : n \in 0..2}

QueryOptions ==
    [filter : {<<>>, <<"odd">>, <<"big">>},
     sort : {<<>>, <<"asc">>, <<"desc">>},
     offset : QueryNumbers,
     limit : QueryNumbers]

QueryStores ==
    UNION {{[i \in 1..n |-> [k |-> QueryKeys[i], v |-> vs[i]]] : vs \in [1..n -> QueryValues]} :
              n \in 0..Len(QueryKeys)}

QueryInit ==
    /\ data \in QueryStores
    /\ maxSize = 0
    /\ now = 0
    /\ inflight = EmptyBag
    /\ last = Idle
    /\ hist = [k \in NonceKeys |-> NoHist]
    /\ tampered = FALSE
    /\ chain = <<>>
    /\ run = NoRun
    /\ events = <<>>
    /\ RestInit

QueryCall(opts) ==
    /\ last' = [op |-> "query", options |-> opts, ret |-> query(data, opts)]
    /\ UNCHANGED <<data, maxSize, now, inflight, hist, tampered, chainVars, events, restVars>>

QueryNext == \E opts \in QueryOptions : QueryCall(opts)

QuerySpec == QueryInit /\ [][QueryNext]_vars

(* The pipeline query() is specified by: filter, sort, drop the first *)
(* offset items, keep at most limit items.                            *)
QueryReference(d, opts) ==
    LET all == StorageGetAll(d)
        filtered == IF opts.filter = <<>> THEN all
                    ELSE SelectSeq(all, LAMBDA v : QueryFilter(opts.filter[1], v))
        sorted == IF opts.sort = <<>> THEN filtered ELSE Sort(filtered, opts.sort[1])
        offset == IF opts.offset = <<>> THEN 0 ELSE opts.offset[1]
        rest == SubSeq(sorted, offset + 1, Len(sorted))
    IN  IF opts.limit = <<>> THEN rest
        ELSE SubSeq(rest, 1, IF opts.limit[1] < Len(rest) THEN opts.limit[1] ELSE Len(rest))

(* C24 as claimed: for every offset >= 0 and every limit >= 0, query()    *)
(* returns the reference pipeline's result, never more than limit items.  *)
C24_QueryIsPipeline ==
    last.op = "query" =>
        /\ last.ret = QueryReference(data, last.options)
        /\ last.options.limit # <<>> => Len(last.ret) <= last.options.limit[1]

-----------------------------------------------------------------------------
(* A TTL store with maxSize > 0 under every operation that can add or      *)
(* remove an entry.                                                        *)

update(d, k, updated) ==
    IF MapHas(d, k)
    THEN [data |-> MapSet(d, k, updated), ret |-> TRUE]
    ELSE [data |-> d, ret |-> FALSE]

getOrCreate(d, k, made) ==
    LET d1 == IF MapHas(d, k) THEN d ELSE MapSet(d, k, made)
    IN  [data |-> d1, ret |-> MapGet(d1, k)[1]]

RECURSIVE setMany(_, _, _)
setMany(d, size, entries) ==
    IF entries = <<>> THEN [data |-> d, events |-> <<>>]
    ELSE LET first == StorageSet(d, size, entries[1][1], entries[1][2])
             rest == setMany(first.data, size, Tail(entries))
         IN  [data |-> rest.data, events |-> first.events \o rest.events]

BoundItem(ttl) == [value |-> "x", expiresAt |-> now + ttl]

BoundInit ==
    /\ data = <<>>
    /\ maxSize \in EvictSizes
    /\ now = 0
    /\ inflight = EmptyBag
    /\ last = Idle
    /\ hist = [k \in NonceKeys |-> NoHist]
    /\ tampered = FALSE
    /\ chain = <<>>
    /\ run = NoRun
    /\ events = <<>>
    /\ RestInit

BoundCall(op, d) ==
    /\ data' = d
    /\ last' = [op |-> op]
    /\ UNCHANGED <<maxSize, now, inflight, hist, tampered, chainVars, events, restVars>>

BoundSet(k, ttl) == BoundCall("set", StorageSet(data, maxSize, k, BoundItem(ttl)).data)

BoundSetWithTTL(k, ttl) ==
    BoundCall("setWithTTL", SetWithTTL(data, maxSize, k, "x", ttl, now).data)

BoundSetMany(k1, k2, ttl) ==
    BoundCall("setMany",
              setMany(data, maxSize, <<<<k1, BoundItem(ttl)>>, <<k2, BoundItem(ttl)>>>>).data)

BoundGetOrCreate(k, ttl) == BoundCall("getOrCreate", getOrCreate(data, k, BoundItem(ttl)).data)

BoundUpdate(k, ttl) == BoundCall("update", update(data, k, BoundItem(ttl)).data)

BoundDelete(k) == BoundCall("delete", StorageDelete(data, k).data)

BoundDeleteMany(k1, k2) == BoundCall("deleteMany", deleteMany(data, <<k1, k2>>).data)

BoundCleanup == BoundCall("cleanup", Cleanup(data, now).data)

BoundTick ==
    /\ now < MaxTime
    /\ now' = now + 1
    /\ last' = [op |-> "tick"]
    /\ UNCHANGED <<data, maxSize, inflight, hist, tampered, chainVars, events, restVars>>

BoundNext ==
    \/ \E k \in EvictKeys, ttl \in StoreTtls : BoundSet(k, ttl)
    \/ \E k \in EvictKeys, ttl \in StoreTtls : BoundSetWithTTL(k, ttl)
    \/ \E k1, k2 \in EvictKeys, ttl \in StoreTtls : BoundSetMany(k1, k2, ttl)
    \/ \E k \in EvictKeys, ttl \in StoreTtls : BoundGetOrCreate(k, ttl)
    \/ \E k \in EvictKeys, ttl \in StoreTtls : BoundUpdate(k, ttl)
    \/ \E k \in EvictKeys : BoundDelete(k)
    \/ \E k1, k2 \in EvictKeys : BoundDeleteMany(k1, k2)
    \/ BoundCleanup
    \/ BoundTick

BoundSpec == BoundInit /\ [][BoundNext]_vars

(* C25 as claimed: a store with maxSize = k > 0 never holds more than k   *)
(* entries, whatever operations were called.                              *)
C25_SizeBounded == maxSize > 0 => Len(data) <= maxSize

-----------------------------------------------------------------------------
(* The onEvict and onExpire callbacks of the options.  set(), get() and    *)
(* cleanup() call them outside any try/catch: a callback that throws ends  *)
(* the operation where it was called.                                      *)

setWithHooks(d, size, k, v, opts) ==
    LET evicting == size > 0 /\ Len(d) >= size /\ ~MapHas(d, k)
        done == StorageSet(d, size, k, v)
    IN  IF evicting /\ opts.onEvict = "throws"
        THEN [data |-> MapDelete(d, d[1].k), events |-> <<>>, thrown |-> TRUE]
        ELSE [data |-> done.data, events |-> done.events, thrown |-> FALSE]

getWithHooks(d, k, t, opts) ==
    LET item == MapGet(d, k)
        done == TTLGet(d, k, t)
    IN  IF item # <<>> /\ isExpired(item[1], t) /\ opts.onExpire = "throws"
        THEN [data |-> StorageDelete(d, k).data,
              ret |-> <<>>,
              events |-> StorageDelete(d, k).events,
              thrown |-> TRUE]
        ELSE [data |-> done.data, ret |-> done.ret, events |-> done.events, thrown |-> FALSE]

cleanupWithHooks(d, t, opts) ==
    LET done == Cleanup(d, t)
    IN  IF done.ret > 0 /\ opts.onExpire = "throws"
        THEN LET first == CHOOSE i \in 1..Len(d) :
                              /\ d[i].v.expiresAt <= t
                              /\ \A j \in 1..(i - 1) : ~(d[j].v.expiresAt <= t)
             IN  [data |-> MapDelete(d, d[first].k), events |-> <<>>, thrown |-> TRUE]
        ELSE [data |-> done.data, events |-> done.events, thrown |-> FALSE]

Hooks == {"ok", "throws"}

HookInit ==
    /\ data = <<>>
    /\ maxSize \in ObserverSizes
    /\ now = 0
    /\ inflight = EmptyBag
    /\ last = Idle
    /\ hist = [k \in NonceKeys |-> NoHist]
    /\ tampered = FALSE
    /\ chain = <<>>
    /\ run = NoRun
    /\ events = <<>>
    /\ options \in {[DefaultOptions EXCEPT !.onEvict = e, !.onExpire = x] : e, x \in Hooks}
    /\ listeners = <<>>
    /\ timers = NoTimers
    /\ sem = NoSem

HookCall(op, k, r) ==
    /\ data' = r.data
    /\ last' = [op |-> op, key |-> k, thrown |-> r.thrown, emitted |-> r.events]
    /\ UNCHANGED <<maxSize, now, inflight, hist, tampered, chainVars, events, restVars>>

HookSetWithTTL(k, ttl) ==
    HookCall("setWithTTL", k,
             setWithHooks(data, maxSize, k, [value |-> "x", expiresAt |-> now + ttl], options))

HookGet(k) == HookCall("get", k, getWithHooks(data, k, now, options))

HookCleanup == HookCall("cleanup", <<>>, cleanupWithHooks(data, now, options))

HookTick ==
    /\ now < MaxTime
    /\ now' = now + 1
    /\ last' = [op |-> "tick", key |-> <<>>, thrown |-> FALSE, emitted |-> <<>>]
    /\ UNCHANGED <<data, maxSize, inflight, hist, tampered, chainVars, events, restVars>>

HookNext ==
    \/ \E k \in StoreKeys, ttl \in StoreTtls : HookSetWithTTL(k, ttl)
    \/ \E k \in StoreKeys : HookGet(k)
    \/ HookCleanup
    \/ HookTick

HookSpec == HookInit /\ [][HookNext]_vars

(* C26 as claimed: whatever onEvict and onExpire do, no operation throws, *)
(* a set leaves its key stored and emits its set event, a get leaves no   *)
(* expired entry under its key, and a cleanup leaves no expired entry.    *)
C26_HooksIsolated ==
    [][/\ last'.op \in {"setWithTTL", "get", "cleanup"} => ~last'.thrown
       /\ last'.op = "setWithTTL" =>
             /\ MapHas(data', last'.key)
             /\ \E i \in 1..Len(last'.emitted) : last'.emitted[i] = Event("set", last'.key)
       /\ last'.op = "get" => ~MapHas(data', last'.key) \/ ~ExpiredPresent(last'.key)
       /\ last'.op = "cleanup" =>
             \A i \in 1..Len(data') : ~isExpired(data'[i].v, now)]_vars

-----------------------------------------------------------------------------
(* C27 as claimed: every response the server returns for a request under  *)
(* /api carries the three Access-Control-Allow-* headers, those made from  *)
(* an error (400, 422, 500) included.                                      *)
C27_CorsOnEveryApiResponse ==
    (/\ last.op \in {"fetch", "return"}
     /\ last.outcome = "response"
     /\ StartsWith(last.req.path, ApiPrefix))
    => CORS_HEADERS \subseteq last.resp.headers

-----------------------------------------------------------------------------
(* What a request equal to req would meet if it arrived now. *)
Retry(req, d) == dispatch(1, ServerChain, req, d, maxSize, now)

(* C28: the completion of a request that passed the guard leaves the store *)
(* as it is, whether the router returned a response, returned an error     *)
(* response or threw; on an unbounded store without delete() and clear(),  *)
(* inside the window of the acceptance the entry of the nonce is there and *)
(* a retry of the request is stopped with DuplicateNonceError.             *)
C28_ConsumedAtAcceptance ==
    [][last'.op = "return" =>
        /\ data' = data
        /\ \A k \in NonceKeys :
              (/\ last'.req.nonce = <<k>>
               /\ Untouched
               /\ now < hist[k].at + NONCE_TTL)
              => /\ MapHas(data', k)
                 /\ Retry(last'.req, data').stop = "throw"
                 /\ Retry(last'.req, data').err.name = "DuplicateNonceError"]_vars

(* C28 witness: the router threw, fetch answered 500, and inside the       *)
(* window the nonce of the failed request is still stored.                 *)
C28_Witness ==
    /\ last.op = "return"
    /\ last.error = "Error"
    /\ last.resp.status = INTERNAL_SERVER_ERROR
    /\ Untouched
    /\ \E k \in NonceKeys :
          /\ last.req.nonce = <<k>>
          /\ now < hist[k].at + NONCE_TTL
          /\ MapHas(data, k)
          /\ Retry(last.req, data).err.name = "DuplicateNonceError"

-----------------------------------------------------------------------------
(* find(predicate).  The predicates under test are "the key is p".  In the *)
(* base store the values are numbers, which indexOf compares by value; in  *)
(* the TTL store they are the item objects made by setWithTTL, which       *)
(* indexOf compares by identity: an item stands here with the key it was   *)
(* made for.                                                               *)

(* Array.prototype.indexOf, counted from 1. *)
IndexOf(s, v) ==
    IF \E i \in 1..Len(s) : s[i] = v
    THEN CHOOSE i \in 1..Len(s) : s[i] = v /\ \A j \in 1..(i - 1) : s[j] # v
    ELSE 0

MapKeys(d) == [i \in 1..Len(d) |-> d[i].k]

FindPredicate(p, v, k) == k = p

(* find() of InMemoryStorage. *)
find(d, p) ==
    LET all == StorageGetAll(d)
    IN  SelectSeq(all, LAMBDA v : FindPredicate(p, v, MapKeys(d)[IndexOf(all, v)]))

(* find() as InMemoryStorageWithTTL inherits it: this.getAll() is the *)
(* getAll() that leaves the expired items out.                        *)
findTTL(d, t, p) ==
    LET all == SelectSeq(d, LAMBDA e : e.v.expiresAt > t)
        found == SelectSeq(all, LAMBDA e : FindPredicate(p, e.v, MapKeys(d)[IndexOf(all, e)]))
    IN  [i \in 1..Len(found) |-> found[i].v]

FindValues == 1..2

FindItems == [value : {"x"}, expiresAt : 1..2]

FindStores(values) ==
    UNION {{[i \in 1..n |-> [k |-> QueryKeys[i], v |-> vs[i]]] : vs \in [1..n -> values]} :
              n \in 0..Len(QueryKeys)}

FindInit ==
    /\ options \in {[DefaultOptions EXCEPT !.ttl = b] : b \in BOOLEAN}
    /\ data \in IF options.ttl THEN FindStores(FindItems) ELSE FindStores(FindValues)
    /\ now \in IF options.ttl THEN 0..MaxTime ELSE {0}
    /\ maxSize = 0
    /\ inflight = EmptyBag
    /\ last = Idle
    /\ hist = [k \in NonceKeys |-> NoHist]
    /\ tampered = FALSE
    /\ chain = <<>>
    /\ run = NoRun
    /\ events = <<>>
    /\ listeners = <<>>
    /\ timers = NoTimers
    /\ sem = NoSem

FindCall(p) ==
    /\ last' = [op |-> "find", predicate |-> p,
                ret |-> IF options.ttl THEN findTTL(data, now, p) ELSE find(data, p)]
    /\ UNCHANGED <<data, maxSize, now, inflight, hist, tampered, chainVars, events, restVars>>

FindNext == \E i \in 1..Len(QueryKeys) : FindCall(QueryKeys[i])

FindSpec == FindInit /\ [][FindNext]_vars

(* The values find() is specified to return: those of the entries (not    *)
(* expired, in a TTL store) whose value and own key satisfy the predicate. *)
FindReference(d, p) ==
    LET live == IF options.ttl THEN SelectSeq(d, LAMBDA e : e.v.expiresAt > now) ELSE d
        found == SelectSeq(live, LAMBDA e : FindPredicate(p, e.v, e.k))
    IN  [i \in 1..Len(found) |-> found[i].v]

(* C29 as claimed: find(predicate) returns exactly the values stored under *)
(* a key for which predicate(value, key) is true, also when two keys hold  *)
(* equal values and when a TTL store still holds expired entries.          *)
C29_FindPassesOwnKey ==
    last.op = "find" => last.ret = FindReference(data, last.predicate)

-----------------------------------------------------------------------------
(* Semaphore.  sem.size is the argument of the constructor, sem.permits    *)
(* and sem.queue are the fields; sem.callers holds, for each call of       *)
(* execute() in the order the calls were made, where that call is:         *)
(* "waiting" (its resolve is in the queue), "granted" (acquire() has       *)
(* resolved, the continuation of execute has not run yet), "running" (fn   *)
(* was called and has not settled), "done" or "failed".                    *)

Semaphore(permits) == [NoSem EXCEPT !.size = permits, !.permits = permits]

acquire(s, id) ==
    IF s.permits > 0
    THEN [s EXCEPT !.permits = @ - 1, !.callers = Append(@, "granted")]
    ELSE [s EXCEPT !.queue = Append(@, id), !.callers = Append(@, "waiting")]

(* A release() that counts the permit although it hands it to a waiter. *)
releaseAlwaysCounts(s) ==
    IF Len(s.queue) > 0
    THEN [s EXCEPT !.queue = Tail(@), !.callers[Head(s.queue)] = "granted",
                   !.permits = @ + 1]
    ELSE [s EXCEPT !.permits = @ + 1]

release(s) ==
    IF Len(s.queue) > 0
    THEN [s EXCEPT !.queue = Tail(@), !.callers[Head(s.queue)] = "granted"]
    ELSE [s EXCEPT !.permits = @ + 1]

SemPermits == 1..2

SemInit ==
    /\ data = <<>>
    /\ maxSize = 0
    /\ now = 0
    /\ inflight = EmptyBag
    /\ last = Idle
    /\ hist = [k \in NonceKeys |-> NoHist]
    /\ tampered = FALSE
    /\ chain = <<>>
    /\ run = NoRun
    /\ events = <<>>
    /\ options = DefaultOptions
    /\ listeners = <<>>
    /\ timers = NoTimers
    /\ sem \in {Semaphore(p) : p \in SemPermits}

SemUnchanged == UNCHANGED <<data, maxSize, now, inflight, last, hist, tampered, chainVars,
                            events, options, listeners, timers>>

(* execute(fn) is called: acquire() runs up to its return. *)
SemExecute ==
    /\ Len(sem.callers) < MaxCalls
    /\ sem' = acquire(sem, Len(sem.callers) + 1)
    /\ SemUnchanged

(* The continuation of execute after `await this.acquire()`: fn is called. *)
SemStart(id) ==
    /\ sem.callers[id] = "granted"
    /\ sem' = [sem EXCEPT !.callers[id] = "running"]
    /\ SemUnchanged

(* fn settles, fulfilled or rejected: the finally block calls release(). *)
SemFinish(id, result) ==
    /\ sem.callers[id] = "running"
    /\ sem' = release([sem EXCEPT !.callers[id] = result])
    /\ SemUnchanged

(* release() is called from outside execute: it is a public method.  The *)
(* call is noted in sem.direct.                                          *)
SemRelease ==
    /\ sem.permits < MaxCalls
    /\ sem' = [release(sem) EXCEPT !.direct = TRUE]
    /\ SemUnchanged

SemNext ==
    \/ SemExecute
    \/ SemRelease
    \/ \E id \in DOMAIN sem.callers : SemStart(id)
    \/ \E id \in DOMAIN sem.callers, result \in {"done", "failed"} : SemFinish(id, result)

SemSpec == SemInit /\ [][SemNext]_vars

InPhase(s, phase) == {id \in DOMAIN s.callers : s.callers[id] = phase}

(* The permits are conserved: each is free, or held by a call that was     *)
(* granted it and has not released it; so at most size calls of fn run.    *)
SemSafe(s) ==
    /\ s.permits >= 0
    /\ Cardinality(InPhase(s, "running")) <= s.size
    /\ s.permits + Cardinality(InPhase(s, "granted")) + Cardinality(InPhase(s, "running")) = s.size
    /\ InPhase(s, "waiting") = {s.queue[i] : i \in 1..Len(s.queue)}

(* C30: on a semaphore used only through execute(fn), under every          *)
(* interleaving of calls, completions and failures, at most size           *)
(* invocations of fn run at a time and the permit count is never negative; *)
(* a permit released while calls wait goes to the call that has waited     *)
(* longest.                                                                *)
C30_BoundedFifo ==
    [][/\ ~sem'.direct => SemSafe(sem')
       /\ \A id \in InPhase(sem, "waiting") :
             sem'.callers[id] = "granted"
             => \A other \in InPhase(sem, "waiting") : id <= other]_vars

(* C30 witness: with one permit, the first call failed, its permit went to *)
(* the second call, which is running, and the third call still waits.      *)
C30_Witness ==
    /\ ~sem.direct
    /\ sem.size = 1
    /\ sem.permits = 0
    /\ Len(sem.callers) >= 3
    /\ sem.callers[1] = "failed"
    /\ sem.callers[2] = "running"
    /\ sem.callers[3] = "waiting"

====
